---- MODULE Spec2Model ----
(***************************************************************************)
(* Model of the notebook opencadd/data/klifs_ids.ipynb: fetch the KLIFS    *)
(* structures table, keep the seven ID columns, sort by structure ID, run  *)
(* the structure sanity check, save a dated zip-compressed CSV, load it    *)
(* back, fetch the ligands table, run the ligand sanity check and show the *)
(* structures of the two ambiguous ligand expo IDs.                        *)
(*                                                                         *)
(* Text is modelled as sequences of one-character strings, so that         *)
(* formatting, quoting, tokenizing and type inference are computed and the *)
(* write/read round trip is not the identity by construction.              *)
(***************************************************************************)
EXTENDS Integers, Sequences, FiniteSets, TLC

(***************************************************************************)
(* Bounds of the model.                                                    *)
(***************************************************************************)
MaxRows == 2
MaxLigands == 2
MaxTicks == 1

(***************************************************************************)
(* Characters and strings.                                                 *)
(***************************************************************************)
\* The characters used, in ascending code point order (Python compares
\* str values by code point).
AsciiOrder ==
    << "\n", " ", "\"", ",", "-", ".",
       "0", "1", "2", "3", "4", "5", "6", "7", "8", "9", ":",
       "A", "B", "C", "D", "E", "F", "G", "H", "I", "J", "K", "L", "M",
       "N", "O", "P", "Q", "R", "S", "T", "U", "V", "W", "X", "Y", "Z", "_",
       "a", "b", "c", "d", "e", "f", "g", "h", "i", "j", "k", "l", "m",
       "n", "o", "p", "q", "r", "s", "t", "u", "v", "w", "x", "y", "z" >>

Ord(c) == CHOOSE i \in 1..Len(AsciiOrder) : AsciiOrder[i] = c

RECURSIVE StrLt(_, _)
\* Python's s < t on str: lexicographic by code point, a proper prefix first.
StrLt(s, t) ==
    IF t = <<>> THEN FALSE
    ELSE IF s = <<>> THEN TRUE
    ELSE IF Head(s) # Head(t) THEN Ord(Head(s)) < Ord(Head(t))
    ELSE StrLt(Tail(s), Tail(t))

Digits == <<"0", "1", "2", "3", "4", "5", "6", "7", "8", "9">>

IsDigit(c) == \E i \in 1..10 : Digits[i] = c

DigitVal(c) == (CHOOSE i \in 1..10 : Digits[i] = c) - 1

AllDigits(s) == s # <<>> /\ \A i \in 1..Len(s) : IsDigit(s[i])

RECURSIVE NatToStr(_)
\* Decimal digits of a natural number, no padding.
NatToStr(n) ==
    IF n < 10 THEN <<Digits[n + 1]>>
    ELSE NatToStr(n \div 10) \o <<Digits[(n % 10) + 1]>>

\* str(n) of a Python int.
IntToStr(n) == IF n < 0 THEN <<"-">> \o NatToStr(0 - n) ELSE NatToStr(n)

RECURSIVE DigitsToNat(_)
\* Value of a string of decimal digits; leading zeros do not count.
DigitsToNat(s) ==
    IF s = <<>> THEN 0
    ELSE 10 * DigitsToNat(SubSeq(s, 1, Len(s) - 1)) + DigitVal(s[Len(s)])

RECURSIVE ZeroPad(_, _)
\* Left-pad with "0" up to the given width (never truncates).
ZeroPad(s, width) == IF Len(s) >= width THEN s ELSE ZeroPad(<<"0">> \o s, width)

EndsWith(s, suffix) ==
    /\ Len(s) >= Len(suffix)
    /\ SubSeq(s, Len(s) - Len(suffix) + 1, Len(s)) = suffix

(***************************************************************************)
(* Cell values of a DataFrame.  One record shape for every kind of value:  *)
(*   str   - Python str, the characters in s                               *)
(*   int   - int64, the value in v                                         *)
(*   float - float64 with value v * 10^e (v has no trailing zero)          *)
(*   bool  - v = 1 for True, 0 for False                                   *)
(*   nan   - missing value (NaN)                                           *)
(***************************************************************************)
StrCell(s) == [t |-> "str", s |-> s, v |-> 0, e |-> 0]
IntCell(n) == [t |-> "int", s |-> <<>>, v |-> n, e |-> 0]
BoolCell(b) == [t |-> "bool", s |-> <<>>, v |-> IF b THEN 1 ELSE 0, e |-> 0]
NaN == [t |-> "nan", s |-> <<>>, v |-> 0, e |-> 0]

RECURSIVE FloatCell(_, _)
FloatCell(m, ex) ==
    IF m # 0 /\ m % 10 = 0 THEN FloatCell(m \div 10, ex + 1)
    ELSE [t |-> "float", s |-> <<>>, v |-> m, e |-> IF m = 0 THEN 0 ELSE ex]

(***************************************************************************)
(* DataFrames.  A frame is [cols, rows]: cols is the sequence of column    *)
(* labels, rows the sequence of [idx, vals] with idx the row's index label *)
(* and vals a function from the column labels to cells.                    *)
(***************************************************************************)
NoFrame == [cols |-> <<>>, rows |-> <<>>]

SeqToSet(q) == {q[i] : i \in 1..Len(q)}

\* df[[c1, ..., cn]]: the listed columns in the listed order, rows and index
\* labels kept.  (A label that is not a column raises KeyError: HasColumns.)
HasColumns(df, labels) == SeqToSet(labels) \subseteq SeqToSet(df.cols)

\* Variant: every column of the frame kept.
SelectColumns_all(df, labels) == df

SelectColumns(df, labels) ==
    [cols |-> labels,
     rows |-> [i \in 1..Len(df.rows) |->
                 [idx |-> df.rows[i].idx,
                  vals |-> [c \in SeqToSet(labels) |-> df.rows[i].vals[c]]]]]

\* df.head(n)
HeadRows(df, n) ==
    [cols |-> df.cols,
     rows |-> SubSeq(df.rows, 1, IF Len(df.rows) < n THEN Len(df.rows) ELSE n)]

\* df[df[col] == value]: boolean mask selection, order and labels kept.
RECURSIVE FilterSeq(_, _, _)
FilterSeq(q, col, keep) ==
    IF q = <<>> THEN <<>>
    ELSE (IF Head(q).vals[col] \in keep THEN <<Head(q)>> ELSE <<>>)
         \o FilterSeq(Tail(q), col, keep)

\* The frames compared without their index labels.
Values(df) == [cols |-> df.cols,
               rows |-> [i \in 1..Len(df.rows) |-> df.rows[i].vals]]

(***************************************************************************)
(* DataFrame.to_csv: the text of the CSV file.                             *)
(***************************************************************************)
\* Text of one cell (na_rep = "").  The frames this notebook writes hold
\* str and int64 columns; bool and missing values are formatted as pandas
\* formats them.
FormatCell(cell) ==
    CASE cell.t = "str" -> cell.s
      [] cell.t = "int" -> IntToStr(cell.v)
      [] cell.t = "bool" -> IF cell.v = 1 THEN <<"T", "r", "u", "e">>
                            ELSE <<"F", "a", "l", "s", "e">>
      [] cell.t = "nan" -> <<>>

\* csv.QUOTE_MINIMAL: a field is quoted when it holds the delimiter, the
\* quote character or a line terminator character.
NeedsQuote(field) ==
    \E i \in 1..Len(field) : field[i] \in {",", "\"", "\n"}

RECURSIVE DoubleQuotes(_)
DoubleQuotes(field) ==
    IF field = <<>> THEN <<>>
    ELSE (IF Head(field) = "\"" THEN <<"\"", "\"">> ELSE <<Head(field)>>)
         \o DoubleQuotes(Tail(field))

QuoteField(field) ==
    IF NeedsQuote(field) THEN <<"\"">> \o DoubleQuotes(field) \o <<"\"">>
    ELSE field

RECURSIVE JoinFields(_)
JoinFields(fields) ==
    IF fields = <<>> THEN <<>>
    ELSE IF Len(fields) = 1 THEN QuoteField(fields[1])
    ELSE QuoteField(fields[1]) \o <<",">> \o JoinFields(Tail(fields))

\* One line of the file with its terminator.
CsvLine(fields) == JoinFields(fields) \o <<"\n">>

\* index=None is falsy as index=False is: only a truthy index argument
\* writes the row labels as a first column (its header field is empty).
WritesIndex(index) == index = "True"

RowFields(df, i, index) ==
    (IF WritesIndex(index) THEN <<IntToStr(df.rows[i].idx)>> ELSE <<>>)
    \o [k \in 1..Len(df.cols) |-> FormatCell(df.rows[i].vals[df.cols[k]])]

HeaderFields(df, index) ==
    (IF WritesIndex(index) THEN << <<>> >> ELSE <<>>) \o df.cols

RECURSIVE CsvRows(_, _, _)
CsvRows(df, i, index) ==
    IF i > Len(df.rows) THEN <<>>
    ELSE CsvLine(RowFields(df, i, index)) \o CsvRows(df, i + 1, index)

CsvText(df, index) == CsvLine(HeaderFields(df, index)) \o CsvRows(df, 1, index)

\* df.to_csv(path, index=..., compression=...): the content of the file.
ToCsv(df, index, compression) ==
    [format |-> compression, data |-> CsvText(df, index)]

(***************************************************************************)
(* pandas.read_csv with its defaults: tokenizing, header, type inference.  *)
(***************************************************************************)
\* The tokenizer, one field at a time: at the start of a field (sof), in an
\* unquoted field (fld), in a quoted field (quo), after a quote in a quoted
\* field (qiq).  The result is the field, the position after it and what
\* ended it: a comma, a newline, the end of the text, or an error when the
\* text ends in a quoted field.
RECURSIVE ScanField(_, _, _, _)
ScanField(text, pos, st, fld) ==
    IF pos > Len(text) THEN
        [field |-> fld, next |-> pos, stop |-> IF st = "quo" THEN "error" ELSE "eof"]
    ELSE
        LET c == text[pos]
        IN  CASE st = "quo" /\ c = "\"" -> ScanField(text, pos + 1, "qiq", fld)
              [] st = "quo" /\ c # "\"" -> ScanField(text, pos + 1, "quo", Append(fld, c))
              [] st = "qiq" /\ c = "\"" -> ScanField(text, pos + 1, "quo", Append(fld, c))
              [] st = "sof" /\ c = "\"" -> ScanField(text, pos + 1, "quo", fld)
              [] st # "quo" /\ c = "," -> [field |-> fld, next |-> pos + 1, stop |-> "comma"]
              [] st # "quo" /\ c = "\n" -> [field |-> fld, next |-> pos + 1, stop |-> "newline"]
              [] OTHER -> ScanField(text, pos + 1, "fld", Append(fld, c))

RECURSIVE ScanRecord(_, _, _)
\* The fields of the record that starts at pos.
ScanRecord(text, pos, rec) ==
    LET f == ScanField(text, pos, "sof", <<>>)
    IN  IF f.stop = "comma" THEN ScanRecord(text, f.next, Append(rec, f.field))
        ELSE [rec |-> Append(rec, f.field), next |-> f.next, stop |-> f.stop]

RECURSIVE ScanRecords(_, _, _)
\* The records of the text from pos on; blank lines are skipped.
ScanRecords(text, pos, acc) ==
    IF pos > Len(text) THEN [err |-> "none", recs |-> acc]
    ELSE IF text[pos] = "\n" THEN ScanRecords(text, pos + 1, acc)
    ELSE LET r == ScanRecord(text, pos, <<>>)
         IN  IF r.stop = "error" THEN [err |-> "ParserError", recs |-> acc]
             ELSE ScanRecords(text, r.next, Append(acc, r.rec))

Tokenize(text) == ScanRecords(text, 1, <<>>)

\* The strings read_csv takes for a missing value (keep_default_na=True,
\* na_filter=True), quoted or not.
NaTokens ==
    { <<>>,
      <<"#", "N", "/", "A">>, <<"#", "N", "/", "A", " ", "N", "/", "A">>,
      <<"#", "N", "A">>, <<"-", "1", ".", "#", "I", "N", "D">>,
      <<"-", "1", ".", "#", "Q", "N", "A", "N">>, <<"-", "N", "a", "N">>,
      <<"-", "n", "a", "n">>, <<"1", ".", "#", "I", "N", "D">>,
      <<"1", ".", "#", "Q", "N", "A", "N">>, <<"<", "N", "A", ">">>,
      <<"N", "/", "A">>, <<"N", "A">>, <<"N", "U", "L", "L">>,
      <<"N", "a", "N">>, <<"N", "o", "n", "e">>, <<"n", "/", "a">>,
      <<"n", "a", "n">>, <<"n", "u", "l", "l">> }

\* Variant: the placeholder "-" counted among the missing-value strings.
IsNaTok_dash(tok) == tok \in NaTokens \cup {<<"-">>}

IsNaTok(tok) == tok \in NaTokens

HasSign(tok) == tok # <<>> /\ tok[1] \in {"-", "+"}
Unsigned(tok) == IF HasSign(tok) THEN Tail(tok) ELSE tok
SignOf(tok) == IF tok # <<>> /\ tok[1] = "-" THEN 0 - 1 ELSE 1

\* An optional sign and decimal digits.
IsIntTok(tok) == AllDigits(Unsigned(tok))
IntOfTok(tok) == SignOf(tok) * DigitsToNat(Unsigned(tok))

\* First position of a character of the set, 0 when there is none.
IndexOf(s, chars) ==
    IF \E i \in 1..Len(s) : s[i] \in chars
    THEN CHOOSE i \in 1..Len(s) : s[i] \in chars /\ \A j \in 1..(i - 1) : s[j] \notin chars
    ELSE 0

\* [sign] digits [. digits] [e|E [sign] digits], at least one mantissa digit.
FloatParts(tok) ==
    LET body == Unsigned(tok)
        ePos == IndexOf(body, {"e", "E"})
        mant == IF ePos = 0 THEN body ELSE SubSeq(body, 1, ePos - 1)
        expo == IF ePos = 0 THEN <<>> ELSE SubSeq(body, ePos + 1, Len(body))
        dot == IndexOf(mant, {"."})
    IN  [hasExp |-> ePos # 0,
         ip |-> IF dot = 0 THEN mant ELSE SubSeq(mant, 1, dot - 1),
         fp |-> IF dot = 0 THEN <<>> ELSE SubSeq(mant, dot + 1, Len(mant)),
         expo |-> expo]

IsFloatTok(tok) ==
    LET p == FloatParts(tok)
    IN  /\ AllDigits(p.ip \o p.fp)
        /\ p.hasExp => IsIntTok(p.expo)

FloatOfTok(tok) ==
    LET p == FloatParts(tok)
    IN  FloatCell(SignOf(tok) * DigitsToNat(p.ip \o p.fp),
                  (IF p.hasExp THEN IntOfTok(p.expo) ELSE 0) - Len(p.fp))

TrueTokens == { <<"T", "r", "u", "e">>, <<"T", "R", "U", "E">>, <<"t", "r", "u", "e">> }
FalseTokens == { <<"F", "a", "l", "s", "e">>, <<"F", "A", "L", "S", "E">>,
                 <<"f", "a", "l", "s", "e">> }
IsBoolTok(tok) == tok \in TrueTokens \cup FalseTokens

\* Type inference of one column from its tokens: int64, else float64, else
\* bool, else object (str); a missing value makes an integer column float64.
InferDtype(toks) ==
    LET present == {i \in 1..Len(toks) : ~IsNaTok(toks[i])}
    IN  IF present = {} THEN "float"
        ELSE IF \A i \in present : IsIntTok(toks[i])
             THEN (IF present = 1..Len(toks) THEN "int" ELSE "float")
        ELSE IF \A i \in present : IsFloatTok(toks[i]) THEN "float"
        ELSE IF \A i \in present : IsBoolTok(toks[i]) THEN "bool"
        ELSE "str"

ConvertToken(tok, dtype) ==
    IF IsNaTok(tok) THEN NaN
    ELSE CASE dtype = "int" -> IntCell(IntOfTok(tok))
           [] dtype = "float" -> FloatOfTok(tok)
           [] dtype = "bool" -> BoolCell(tok \in TrueTokens)
           [] dtype = "str" -> StrCell(tok)

\* Column labels of the header record: an empty name becomes "Unnamed: <k>"
\* with k the 0-based position.
HeaderLabel(name, k) ==
    IF name = <<>>
    THEN <<"U", "n", "n", "a", "m", "e", "d", ":", " ">> \o NatToStr(k - 1)
    ELSE name

\* A record with fewer fields than the header is padded with missing values.
FieldAt(rec, k) == IF k <= Len(rec) THEN rec[k] ELSE <<>>

ParseCsv(text) ==
    LET tk == Tokenize(text) IN
    IF tk.err # "none" THEN [err |-> tk.err, df |-> NoFrame]
    ELSE IF tk.recs = <<>> THEN [err |-> "EmptyDataError", df |-> NoFrame]
    ELSE
      LET header == tk.recs[1]
          data == Tail(tk.recs)
          n == Len(header)
          labels == [k \in 1..n |-> HeaderLabel(header[k], k)]
          dtype == [k \in 1..n |->
                       InferDtype([i \in 1..Len(data) |-> FieldAt(data[i], k)])]
          colOf == [c \in SeqToSet(labels) |-> CHOOSE k \in 1..n : labels[k] = c]
      IN  IF \E i \in 1..Len(data) : Len(data[i]) > n
          THEN [err |-> "ParserError", df |-> NoFrame]
          ELSE [err |-> "none",
                df |-> [cols |-> labels,
                        rows |-> [i \in 1..Len(data) |->
                           [idx |-> i - 1,
                            vals |-> [c \in SeqToSet(labels) |->
                               ConvertToken(FieldAt(data[i], colOf[c]),
                                            dtype[colOf[c]])]]]]]

\* compression="infer": decided by the extension of the path.
InferCompression(path) ==
    IF EndsWith(path, <<".", "z", "i", "p">>) THEN "zip" ELSE "none"

NoFile == [format |-> "absent", data |-> <<>>]

\* pd.read_csv(path) on the file content found at the path.
ReadCsv(file, path) ==
    IF file.format = "absent" THEN [err |-> "FileNotFoundError", df |-> NoFrame]
    ELSE IF file.format # InferCompression(path)
    THEN [err |-> IF InferCompression(path) = "zip" THEN "BadZipFile"
                  ELSE "UnicodeDecodeError",
          df |-> NoFrame]
    ELSE ParseCsv(file.data)

(***************************************************************************)
(* Column labels (the strings of the notebook, as character sequences).    *)
(***************************************************************************)
structure_klifs_id ==
    <<"s", "t", "r", "u", "c", "t", "u", "r", "e", ".", "k", "l", "i", "f", "s", "_", "i", "d">>
structure_pdb_id ==
    <<"s", "t", "r", "u", "c", "t", "u", "r", "e", ".", "p", "d", "b", "_", "i", "d">>
structure_alternate_model ==
    <<"s", "t", "r", "u", "c", "t", "u", "r", "e", ".", "a", "l", "t", "e", "r", "n", "a", "t", "e", "_", "m", "o", "d", "e", "l">>
structure_chain ==
    <<"s", "t", "r", "u", "c", "t", "u", "r", "e", ".", "c", "h", "a", "i", "n">>
kinase_klifs_name ==
    <<"k", "i", "n", "a", "s", "e", ".", "k", "l", "i", "f", "s", "_", "n", "a", "m", "e">>
kinase_klifs_id ==
    <<"k", "i", "n", "a", "s", "e", ".", "k", "l", "i", "f", "s", "_", "i", "d">>
ligand_expo_id ==
    <<"l", "i", "g", "a", "n", "d", ".", "e", "x", "p", "o", "_", "i", "d">>
species_klifs ==
    <<"s", "p", "e", "c", "i", "e", "s", ".", "k", "l", "i", "f", "s">>
ligand_klifs_id ==
    <<"l", "i", "g", "a", "n", "d", ".", "k", "l", "i", "f", "s", "_", "i", "d">>
ligand_name ==
    <<"l", "i", "g", "a", "n", "d", ".", "n", "a", "m", "e">>

\* The column list of the selection in cell 4, in its order.
IdColumns ==
    <<structure_klifs_id, structure_pdb_id, structure_alternate_model,
      structure_chain, kinase_klifs_name, kinase_klifs_id, ligand_expo_id>>

(***************************************************************************)
(* What the remote service may return.  The service is outside the         *)
(* notebook: the model draws its answer from a bounded set of tables built *)
(* from the records below (those of the notebook's outputs, plus records   *)
(* sharing a structure ID or a (pdb, alternate model, chain) triple, a     *)
(* ligand named "NA" and a kinase name that needs quoting).                *)
(***************************************************************************)
StructureRecord(id, pdb, alt, chain, kinase, kid, expo) ==
    (structure_klifs_id :> IntCell(id)) @@ (structure_pdb_id :> StrCell(pdb))
    @@ (structure_alternate_model :> StrCell(alt)) @@ (structure_chain :> StrCell(chain))
    @@ (kinase_klifs_name :> StrCell(kinase)) @@ (kinase_klifs_id :> IntCell(kid))
    @@ (ligand_expo_id :> StrCell(expo)) @@ (species_klifs :> StrCell(<<"H", "u", "m", "a", "n">>))

Rec1 ==
    StructureRecord(1, <<"3", "d", "k", "o">>, <<"A">>, <<"A">>,
        <<"E", "p", "h", "A", "7">>, 415, <<"I", "H", "Z">>)
Rec2 ==
    StructureRecord(2, <<"2", "r", "e", "i">>, <<"B">>, <<"A">>,
        <<"E", "p", "h", "A", "7">>, 415, <<"-">>)
Rec3 ==
    StructureRecord(3, <<"3", "d", "k", "o">>, <<"B">>, <<"A">>,
        <<"E", "p", "h", "A", "7">>, 415, <<"I", "H", "Z">>)
Rec4 ==
    StructureRecord(4, <<"2", "r", "e", "i">>, <<"A">>, <<"A">>,
        <<"E", "p", "h", "A", "7">>, 415, <<"-">>)
Rec5 ==
    StructureRecord(5, <<"3", "v", "8", "t">>, <<"B">>, <<"A">>,
        <<"I", "T", "K">>, 474, <<"4", "7", "7">>)
Rec9564 ==
    StructureRecord(9564, <<"5", "t", "3", "1">>, <<"-">>, <<"B">>,
        <<"G", "S", "K", "3", "B">>, 238, <<"6", "V", "L">>)
RecTwin ==
    StructureRecord(2, <<"3", "d", "k", "o">>, <<"A">>, <<"A">>,
        <<"C", "K", "2", "a", ",", "\"", "1">>, 285, <<"N", "A">>)

RecordPool == <<Rec1, Rec2, Rec9564, RecTwin>>

\* The five records of the notebook's output in the order the service
\* returned them (index labels 7670, 7671, 7672, 7673, 9567).
SeededRecords == <<Rec1, Rec4, Rec3, Rec2, Rec5>>

\* A synthetic duplicate: two records of one (pdb, alternate model, chain)
\* triple, two records of one structure ID, and a record of its own triple.
CollidingRecords == <<RecTwin, Rec2, Rec1>>

\* The column layouts of the fetched table: the API's columns (more than
\* the seven, in the API's order), exactly the seven, and a table that
\* lacks one of the seven.
FetchedLayouts ==
    { <<structure_klifs_id, structure_pdb_id, structure_alternate_model,
        structure_chain, species_klifs, kinase_klifs_id, kinase_klifs_name,
        ligand_expo_id>>,
      IdColumns,
      <<structure_klifs_id, structure_pdb_id, structure_alternate_model,
        structure_chain, kinase_klifs_name, kinase_klifs_id>> }

\* All sequences of distinct records of the pool of length at most n (the
\* service lists each record once).
SeqsUpTo(pool, n) ==
    {recs \in UNION {[1..k -> SeqToSet(pool)] : k \in 0..n} :
        \A i, j \in 1..Len(recs) : i # j => recs[i] # recs[j]}

\* A frame with the given columns and records, index labels 0, 1, ...
MakeFrame(cols, recs) ==
    [cols |-> cols,
     rows |-> [i \in 1..Len(recs) |->
                 [idx |-> i - 1,
                  vals |-> [c \in SeqToSet(cols) |-> recs[i][c]]]]]

FetchedStructures ==
    {MakeFrame(cols, recs) :
        cols \in FetchedLayouts,
        recs \in SeqsUpTo(RecordPool, MaxRows)
                 \cup {SeededRecords, CollidingRecords}}

LigandRecord(id, expo) ==
    (ligand_klifs_id :> IntCell(id)) @@ (ligand_expo_id :> StrCell(expo))
    @@ (ligand_name :> StrCell(<<"x">>))

Lig3015 == LigandRecord(3015, <<"6", "V", "L">>)
Lig3065 == LigandRecord(3065, <<"6", "V", "L">>)
Lig65 == LigandRecord(65, <<"7", "K", "C">>)
Lig2967 == LigandRecord(2967, <<"7", "K", "C">>)
Lig1 == LigandRecord(1, <<"I", "H", "Z">>)

LigandPool == <<Lig3015, Lig3065, Lig65>>

\* The ambiguous ligands of the notebook's output in the order the service
\* returned them (index labels 64, 2713, 2759, 2881), and a table in which
\* another ligand stands between the two that share "6VL".
LigandScenarios ==
    { <<Lig65, Lig3015, Lig3065, Lig2967>>, <<Lig3015, Lig1, Lig3065>> }

LigandColumns == <<ligand_klifs_id, ligand_name, ligand_expo_id>>

FetchedLigands ==
    {MakeFrame(LigandColumns, recs) :
        recs \in SeqsUpTo(LigandPool, MaxLigands) \cup LigandScenarios}

(***************************************************************************)
(* sort_values and groupby(...).size().                                    *)
(***************************************************************************)
\* Order of two cells of one column (int64 by value, str by code points,
\* missing values last).
CellLt(a, b) ==
    CASE a.t = "nan" -> FALSE
      [] b.t = "nan" -> TRUE
      [] a.t = "str" /\ b.t = "str" -> StrLt(a.s, b.s)
      [] OTHER -> a.v < b.v

IsSortedBy(rows, col) ==
    \A i \in 1..Len(rows) : \A j \in (i + 1)..Len(rows) :
        ~CellLt(rows[j].vals[col], rows[i].vals[col])

\* Variant: the column sorted on its own, the other columns left in place.
SortValues_keyOnly(df, col) ==
    {[cols |-> df.cols,
      rows |-> [i \in 1..Len(df.rows) |->
                  [idx |-> df.rows[i].idx,
                   vals |-> [df.rows[i].vals EXCEPT ![col] = df.rows[p[i]].vals[col]]]]] :
        p \in {q \in Permutations(1..Len(df.rows)) :
                 IsSortedBy([i \in 1..Len(df.rows) |-> df.rows[q[i]]], col)}}

\* Variant: the rows left in the order they have.
SortValues_unsorted(df, col) == {df}

\* df.sort_values(col): the rows (with their index labels) in ascending
\* order of the column.  The default sort kind is not stable, so the order
\* of rows with equal keys is any order: the set of possible results.
SortValues(df, col) ==
    {[cols |-> df.cols, rows |-> [i \in 1..Len(df.rows) |-> df.rows[p[i]]]] :
        p \in {q \in Permutations(1..Len(df.rows)) :
                 IsSortedBy([i \in 1..Len(df.rows) |-> df.rows[q[i]]], col)}}

KeyOf(row, by) == [k \in 1..Len(by) |-> row.vals[by[k]]]

RECURSIVE KeyLt(_, _)
\* Order of two group keys: lexicographic over the key columns.
KeyLt(a, b) ==
    IF a = <<>> THEN FALSE
    ELSE IF Head(a) # Head(b) THEN CellLt(Head(a), Head(b))
    ELSE KeyLt(Tail(a), Tail(b))

RECURSIVE SortKeys(_)
SortKeys(keys) ==
    IF keys = {} THEN <<>>
    ELSE LET m == CHOOSE x \in keys : \A y \in keys : ~KeyLt(y, x)
         IN  <<m>> \o SortKeys(keys \ {m})

\* Number of rows of the frame with the given key.
GroupSize(df, by, key) ==
    Cardinality({i \in 1..Len(df.rows) : KeyOf(df.rows[i], by) = key})

\* df.groupby(by).size(): one entry per distinct key in ascending key order
\* (sort=True); rows with a missing key value are left out (dropna=True).
GroupSizes(df, by) ==
    LET keys == {KeyOf(df.rows[i], by) : i \in 1..Len(df.rows)}
        valid == {k \in keys : \A j \in 1..Len(by) : k[j].t # "nan"}
        order == SortKeys(valid)
    IN  [n \in 1..Len(order) |-> [key |-> order[n], size |-> GroupSize(df, by, order[n])]]

RECURSIVE LargerThan_orEqual(_, _)
\* Variant: sizes[sizes >= n]
LargerThan_orEqual(sizes, n) ==
    IF sizes = <<>> THEN <<>>
    ELSE (IF Head(sizes).size >= n THEN <<Head(sizes)>> ELSE <<>>)
         \o LargerThan_orEqual(Tail(sizes), n)

RECURSIVE LargerThan(_, _)
\* sizes[sizes > n]
LargerThan(sizes, n) ==
    IF sizes = <<>> THEN <<>>
    ELSE (IF Head(sizes).size > n THEN <<Head(sizes)>> ELSE <<>>)
         \o LargerThan(Tail(sizes), n)

(***************************************************************************)
(* date.today() and strftime('%Y%m%d').                                    *)
(***************************************************************************)
IsLeap(y) == (y % 4 = 0 /\ y % 100 # 0) \/ y % 400 = 0

DaysIn(y, m) ==
    IF m = 2 THEN (IF IsLeap(y) THEN 29 ELSE 28)
    ELSE IF m \in {4, 6, 9, 11} THEN 30 ELSE 31

NextDay(day) ==
    IF day.d < DaysIn(day.y, day.m) THEN [day EXCEPT !.d = day.d + 1]
    ELSE IF day.m < 12 THEN [y |-> day.y, m |-> day.m + 1, d |-> 1]
    ELSE [y |-> day.y + 1, m |-> 1, d |-> 1]

\* The dates on which a run of the notebook may start.
StartDates ==
    { [y |-> 2020, m |-> 12, d |-> 31], [y |-> 2021, m |-> 2, d |-> 9] }

NoDate == [y |-> 0, m |-> 0, d |-> 0]

\* Variant: month and day without zero padding.
Strftime_nopad(day) == NatToStr(day.y) \o NatToStr(day.m) \o NatToStr(day.d)

\* day.strftime('%Y%m%d')
Strftime(day) ==
    ZeroPad(NatToStr(day.y), 4) \o ZeroPad(NatToStr(day.m), 2)
    \o ZeroPad(NatToStr(day.d), 2)

\* f"klifs_ids.{date.today().strftime('%Y%m%d')}.csv.zip"
FileName(day) ==
    <<"k", "l", "i", "f", "s", "_", "i", "d", "s", ".">> \o Strftime(day)
    \o <<".", "c", "s", "v", ".", "z", "i", "p">>

(***************************************************************************)
(* The notebook as a state machine.  The cells run top to bottom; an       *)
(* uncaught exception ends the run.                                        *)
(***************************************************************************)
VARIABLES
    pc,              \* the next step of the run, "done" or "error"
    err,             \* the exception that ended the run, "none" otherwise
    failed_at,       \* the step that raised it, "none" otherwise
    today,           \* the calendar date (date.today())
    ticks,           \* number of midnights passed during the run
    structures_all,  \* the notebook's variable structures_all
    ligands_all,     \* the notebook's variable ligands_all
    sizes,           \* the notebook's variable sizes
    filename,        \* the notebook's variable filename (<<>> when unset)
    fs,              \* the files of the working directory: path -> content
    out,             \* what the cells printed and displayed, in order
    trace,           \* history: the steps completed, in order
    fetched,         \* history: the table all_structures() returned
    saved_on,        \* history: the date when filename was computed
    read_path,       \* history: the path given to read_csv
    reloaded         \* history: the table read_csv returned

vars == <<pc, err, failed_at, today, ticks, structures_all, ligands_all, sizes, filename,
          fs, out, trace, fetched, saved_on, read_path, reloaded>>

\* Items of the output.
Text(cell, s) ==
    [cell |-> cell, kind |-> "text", text |-> s, series |-> <<>>,
     shape |-> <<0, 0>>, frame |-> NoFrame]
Series(cell, s) ==
    [cell |-> cell, kind |-> "series", text |-> "", series |-> s,
     shape |-> <<0, 0>>, frame |-> NoFrame]
Shape(cell, df) ==
    [cell |-> cell, kind |-> "shape", text |-> "", series |-> <<>>,
     shape |-> <<Len(df.rows), Len(df.cols)>>, frame |-> NoFrame]
Frame(cell, df) ==
    [cell |-> cell, kind |-> "frame", text |-> "", series |-> <<>>,
     shape |-> <<0, 0>>, frame |-> df]

FileAt(files, path) == IF path \in DOMAIN files THEN files[path] ELSE NoFile

\* A file left from an earlier run on the same day.
StaleFile == ToCsv(MakeFrame(IdColumns, <<Rec5>>), "None", "zip")

\* What an interrupted write leaves at the path.
CorruptFile == [format |-> "corrupt", data |-> <<>>]

Init ==
    /\ pc = "fetch_structures"
    /\ err = "none"
    /\ failed_at = "none"
    /\ today \in StartDates
    /\ ticks = 0
    /\ structures_all = NoFrame
    /\ ligands_all = NoFrame
    /\ sizes = <<>>
    /\ filename = <<>>
    /\ fs \in {<<>>, FileName(today) :> StaleFile}
    /\ out = <<>>
    /\ trace = <<>>
    /\ fetched = NoFrame
    /\ saved_on = NoDate
    /\ read_path = <<>>
    /\ reloaded = NoFrame

\* An uncaught exception: the run stops at this step.
Raise(what) ==
    /\ pc' = "error"
    /\ err' = what
    /\ failed_at' = pc

\* The step completed: on to the next one.
Goto(next) ==
    /\ trace' = Append(trace, pc)
    /\ pc' = next
    /\ UNCHANGED <<err, failed_at>>

\* Midnight passes while the notebook is open.
Tick ==
    /\ pc \notin {"done", "error"}
    /\ ticks < MaxTicks
    /\ ticks' = ticks + 1
    /\ today' = NextDay(today)
    /\ UNCHANGED <<pc, err, failed_at, structures_all, ligands_all, sizes, filename, fs,
                   out, trace, fetched, saved_on, read_path, reloaded>>

\* Cell 4: structures_all = remote.structures.all_structures()
FetchStructures ==
    /\ pc = "fetch_structures"
    /\ \/ \E df \in FetchedStructures :
            /\ structures_all' = df
            /\ fetched' = df
            /\ Goto("select_columns")
       \/ /\ Raise("FetchError")
          /\ UNCHANGED <<structures_all, fetched, trace>>
    /\ UNCHANGED <<today, ticks, ligands_all, sizes, filename, fs, out,
                   saved_on, read_path, reloaded>>

\* Cell 4: structures_all = structures_all[[...the seven labels...]]
SelectIdColumns ==
    /\ pc = "select_columns"
    /\ IF HasColumns(structures_all, IdColumns)
       THEN /\ structures_all' = SelectColumns(structures_all, IdColumns)
            /\ Goto("sort_values")
       ELSE /\ Raise("KeyError")
            /\ UNCHANGED <<structures_all, trace>>
    /\ UNCHANGED <<today, ticks, ligands_all, sizes, filename, fs, out,
                   fetched, saved_on, read_path, reloaded>>

\* Cell 4: structures_all.sort_values("structure.klifs_id", inplace=True)
SortStructures ==
    /\ pc = "sort_values"
    /\ structures_all' \in SortValues(structures_all, structure_klifs_id)
    /\ Goto("show_structures")
    /\ UNCHANGED <<today, ticks, ligands_all, sizes, filename, fs, out,
                   fetched, saved_on, read_path, reloaded>>

\* Variant: the save cell run before the structure sanity check.
ShowStructures_thenSave ==
    /\ pc = "show_structures"
    /\ out' = out \o <<Shape(4, structures_all), Frame(4, HeadRows(structures_all, 5))>>
    /\ Goto("save")
    /\ UNCHANGED <<today, ticks, structures_all, ligands_all, sizes, filename,
                   fs, fetched, saved_on, read_path, reloaded>>

\* Cell 4: print(structures_all.shape); structures_all.head()
ShowStructures ==
    /\ pc = "show_structures"
    /\ out' = out \o <<Shape(4, structures_all), Frame(4, HeadRows(structures_all, 5))>>
    /\ Goto("check_structures")
    /\ UNCHANGED <<today, ticks, structures_all, ligands_all, sizes, filename,
                   fs, fetched, saved_on, read_path, reloaded>>

StructureKey == <<structure_pdb_id, structure_alternate_model, structure_chain>>

\* Cell 5: what the structure sanity check prints for the group sizes.
StructureCheckOutput(s) ==
    <<Text(5, "Sanity check: Are there multiple structure KLIFS IDs for one KLIFS structure?")>>
    \o (IF Len(LargerThan(s, 1)) > 0
        THEN <<Series(5, LargerThan(s, 1))>>
        ELSE <<Text(5, "All good!")>>)

\* Variant: a finding of the structure sanity check raises.
CheckStructures_blocking ==
    /\ pc = "check_structures"
    /\ sizes' = GroupSizes(structures_all, StructureKey)
    /\ out' = out \o StructureCheckOutput(sizes')
    /\ IF Len(LargerThan(sizes', 1)) > 0
       THEN Raise("AssertionError") /\ UNCHANGED trace
       ELSE Goto("save")
    /\ UNCHANGED <<today, ticks, structures_all, ligands_all, filename, fs,
                   fetched, saved_on, read_path, reloaded>>

\* Cell 5: the structure sanity check.
CheckStructures ==
    /\ pc = "check_structures"
    /\ sizes' = GroupSizes(structures_all, StructureKey)
    /\ out' = out \o StructureCheckOutput(sizes')
    /\ Goto("save")
    /\ UNCHANGED <<today, ticks, structures_all, ligands_all, filename, fs,
                   fetched, saved_on, read_path, reloaded>>

\* Variant: a failed write is caught and the run goes on.
Save_swallow ==
    /\ pc = "save"
    /\ filename' = FileName(today)
    /\ saved_on' = today
    /\ \/ /\ fs' = (filename' :> ToCsv(structures_all, "None", "zip")) @@ fs
          /\ Goto("load")
       \/ /\ fs' \in {fs, (filename' :> CorruptFile) @@ fs}
          /\ err' = "OSError"
          /\ failed_at' = "save"
          /\ pc' = "load"
          /\ UNCHANGED trace
    /\ UNCHANGED <<today, ticks, structures_all, ligands_all, sizes, out,
                   fetched, read_path, reloaded>>

\* Cell 6: filename = f"klifs_ids.{date.today()...}.csv.zip";
\* structures_all.to_csv(filename, index=None, compression="zip")
Save ==
    /\ pc = "save"
    /\ filename' = FileName(today)
    /\ saved_on' = today
    /\ \/ /\ fs' = (filename' :> ToCsv(structures_all, "None", "zip")) @@ fs
          /\ Goto("load")
       \/ /\ fs' \in {fs, (filename' :> CorruptFile) @@ fs}
          /\ Raise("OSError")
          /\ UNCHANGED trace
    /\ UNCHANGED <<today, ticks, structures_all, ligands_all, sizes, out,
                   fetched, read_path, reloaded>>

\* Cell 8: pd.read_csv(filename).head()
Load ==
    /\ pc = "load"
    /\ read_path' = filename
    /\ LET read == ReadCsv(FileAt(fs, filename), filename)
       IN  IF read.err = "none"
           THEN /\ reloaded' = read.df
                /\ out' = Append(out, Frame(8, HeadRows(read.df, 5)))
                /\ Goto("fetch_ligands")
           ELSE /\ Raise(read.err)
                /\ UNCHANGED <<out, trace, reloaded>>
    /\ UNCHANGED <<today, ticks, structures_all, ligands_all, sizes, filename,
                   fs, fetched, saved_on>>

\* Cell 10: ligands_all = remote.ligands.all_ligands()
FetchLigands ==
    /\ pc = "fetch_ligands"
    /\ \/ /\ ligands_all' \in FetchedLigands
          /\ Goto("check_ligands")
       \/ /\ Raise("FetchError")
          /\ UNCHANGED <<ligands_all, trace>>
    /\ UNCHANGED <<today, ticks, structures_all, sizes, filename, fs, out,
                   fetched, saved_on, read_path, reloaded>>

\* Variant: the report without .sort_values("ligand.expo_id").
LigandReports_unsorted(df, s) ==
    LET shared == {g.key[1] : g \in SeqToSet(LargerThan(s, 1))}
        rows == FilterSeq(df.rows, ligand_expo_id, shared)
    IN  {SelectColumns([cols |-> df.cols, rows |-> rows],
                       <<ligand_klifs_id, ligand_expo_id>>)}

\* Cell 11: the rows of the ligands whose expo ID is in a group larger than
\* one, the two columns of the report, sorted by expo ID: the possible
\* frames (rows with equal expo ID come in any order).
LigandReports(df, s) ==
    LET shared == {g.key[1] : g \in SeqToSet(LargerThan(s, 1))}
        rows == FilterSeq(df.rows, ligand_expo_id, shared)
    IN  SortValues(SelectColumns([cols |-> df.cols, rows |-> rows],
                                 <<ligand_klifs_id, ligand_expo_id>>),
                   ligand_expo_id)

\* Cell 11: what the ligand sanity check may print for the group sizes.
LigandCheckOutputs(df, s) ==
    IF Len(LargerThan(s, 1)) > 0
    THEN {<<Text(11, "Sanity check: Are there multiple ligand KLIFS IDs for one ligand PDB?"),
            Frame(11, report),
            Text(11, "These PDB IDs need to be check manually!")>> :
            report \in LigandReports(df, s)}
    ELSE {<<Text(11, "Sanity check: Are there multiple ligand KLIFS IDs for one ligand PDB?"),
            Text(11, "All good!")>>}

\* Cell 11: the ligand sanity check.
CheckLigands ==
    /\ pc = "check_ligands"
    /\ sizes' = GroupSizes(ligands_all, <<ligand_expo_id>>)
    /\ \E printed \in LigandCheckOutputs(ligands_all, sizes') :
           out' = out \o printed
    /\ Goto("show_6VL")
    /\ UNCHANGED <<today, ticks, structures_all, ligands_all, filename, fs,
                   fetched, saved_on, read_path, reloaded>>

\* structures_all[structures_all["ligand.expo_id"] == expo]
WithLigand(df, expo) ==
    [cols |-> df.cols, rows |-> FilterSeq(df.rows, ligand_expo_id, {StrCell(expo)})]

\* Variant: the selection assigned back to structures_all.
Show6VL_inplace ==
    /\ pc = "show_6VL"
    /\ structures_all' = WithLigand(structures_all, <<"6", "V", "L">>)
    /\ out' = Append(out, Frame(12, structures_all'))
    /\ Goto("show_7KC")
    /\ UNCHANGED <<today, ticks, ligands_all, sizes, filename,
                   fs, fetched, saved_on, read_path, reloaded>>

\* Cell 12: structures_all[structures_all["ligand.expo_id"] == "6VL"]
Show6VL ==
    /\ pc = "show_6VL"
    /\ out' = Append(out, Frame(12, WithLigand(structures_all, <<"6", "V", "L">>)))
    /\ Goto("show_7KC")
    /\ UNCHANGED <<today, ticks, structures_all, ligands_all, sizes, filename,
                   fs, fetched, saved_on, read_path, reloaded>>

\* Cell 14: structures_all[structures_all["ligand.expo_id"] == "7KC"]
Show7KC ==
    /\ pc = "show_7KC"
    /\ out' = Append(out, Frame(14, WithLigand(structures_all, <<"7", "K", "C">>)))
    /\ Goto("done")
    /\ UNCHANGED <<today, ticks, structures_all, ligands_all, sizes, filename,
                   fs, fetched, saved_on, read_path, reloaded>>

Next ==
    \/ Tick
    \/ FetchStructures
    \/ SelectIdColumns
    \/ SortStructures
    \/ ShowStructures
    \/ CheckStructures
    \/ Save
    \/ Load
    \/ FetchLigands
    \/ CheckLigands
    \/ Show6VL
    \/ Show7KC

Spec == Init /\ [][Next]_vars

TypeOK ==
    /\ pc \in {"fetch_structures", "select_columns", "sort_values",
               "show_structures", "check_structures", "save", "load",
               "fetch_ligands", "check_ligands", "show_6VL", "show_7KC",
               "done", "error"}
    /\ (pc = "error") = (err # "none")
    /\ (pc = "error") = (failed_at # "none")
    /\ ticks \in 0..MaxTicks

(***************************************************************************)
(* Properties.                                                             *)
(***************************************************************************)
Completed(step) == step \in SeqToSet(trace)

Dash == StrCell(<<"-">>)

\* The items a cell has put on the output.
RECURSIVE PrintedBy(_, _)
PrintedBy(items, cell) ==
    IF items = <<>> THEN <<>>
    ELSE (IF Head(items).cell = cell THEN <<Head(items)>> ELSE <<>>)
         \o PrintedBy(Tail(items), cell)

\* C1: once the archive is written, reading it back succeeds and gives a
\* table with the same seven columns in the same order and the same rows in
\* the same order with the same cell values as structures_all (index labels
\* ignored).
C1_RoundTrip ==
    /\ Completed("save") => failed_at # "load"
    /\ Completed("load") => Values(reloaded) = Values(structures_all)

\* C2: every "-" in structure.alternate_model or ligand.expo_id of
\* structures_all is the string "-" in the same row and column of the table
\* read back from the archive, never a missing or other value.
C2_SentinelsRoundTrip ==
    /\ Completed("save") => failed_at # "load"
    /\ Completed("load") =>
         /\ Len(reloaded.rows) = Len(structures_all.rows)
         /\ \A i \in 1..Len(structures_all.rows) :
              \A c \in {structure_alternate_model, ligand_expo_id} :
                 structures_all.rows[i].vals[c] = Dash
                     => reloaded.rows[i].vals[c] = Dash

C2_Witness ==
    /\ Completed("load")
    /\ \E i \in 1..Len(structures_all.rows) :
          structures_all.rows[i].vals[structure_alternate_model] = Dash
    /\ \E i \in 1..Len(structures_all.rows) :
          structures_all.rows[i].vals[ligand_expo_id] = Dash

\* The (pdb, alternate model, chain) triple of a row.
Triple(row) ==
    <<row.vals[structure_pdb_id], row.vals[structure_alternate_model],
      row.vals[structure_chain]>>

RowsWithTriple(df, triple) == {i \in 1..Len(df.rows) : Triple(df.rows[i]) = triple}

SharedTriples(df) ==
    {Triple(df.rows[i]) : i \in {k \in 1..Len(df.rows) :
                                  Cardinality(RowsWithTriple(df, Triple(df.rows[k]))) > 1}}

\* C3: after its heading the structure check prints exactly one thing: the
\* groups, iff some triple is shared by more than one record, and then
\* exactly the shared triples with their sizes; otherwise "All good!".  The
\* check raises no exception.
C3_StructureCheck ==
    /\ failed_at # "check_structures"
    /\ Completed("check_structures") =>
        LET printed == PrintedBy(out, 5)
            shared == SharedTriples(structures_all)
        IN  /\ Len(printed) = 2
            /\ printed[1].kind = "text" /\ printed[1].text # "All good!"
            /\ IF shared # {}
               THEN /\ printed[2].kind = "series"
                    /\ {g.key : g \in SeqToSet(printed[2].series)} = shared
                    /\ Len(printed[2].series) = Cardinality(shared)
                    /\ \A g \in SeqToSet(printed[2].series) :
                          g.size = Cardinality(RowsWithTriple(structures_all, g.key))
               ELSE printed[2] = Text(5, "All good!")

\* A shared triple is reported next to a triple that is not.
C3_Witness ==
    /\ pc = "save"
    /\ Len(structures_all.rows) = 3
    /\ SharedTriples(structures_all) # {}
    /\ \E i \in 1..Len(structures_all.rows) :
          Triple(structures_all.rows[i]) \notin SharedTriples(structures_all)
    /\ PrintedBy(out, 5)[2].kind = "series"

\* The rows of the ligands table whose expo ID another row has too.
SharedExpoRows(df) ==
    {i \in 1..Len(df.rows) :
        \E j \in 1..Len(df.rows) :
            j # i /\ df.rows[j].vals[ligand_expo_id] = df.rows[i].vals[ligand_expo_id]}

\* C4: when some expo ID is shared, the ligand check prints a report whose
\* rows are exactly the ligand records with a shared expo ID (each once),
\* with the two columns ligand.klifs_id and ligand.expo_id, in ascending
\* order of expo ID, so that the records of one expo ID are adjacent; when
\* none is shared it prints "All good!" and no report.
C4_LigandCheck ==
    Completed("check_ligands") =>
        LET printed == PrintedBy(out, 11)
            shared == SharedExpoRows(ligands_all)
            report == printed[2].frame.rows
        IN  /\ printed[1].kind = "text" /\ printed[1].text # "All good!"
            /\ IF shared = {} THEN Len(printed) = 2 /\ printed[2] = Text(11, "All good!")
               ELSE /\ Len(printed) = 3
                    /\ printed[2].kind = "frame"
                    /\ printed[3].kind = "text" /\ printed[3].text # "All good!"
                    /\ printed[2].frame.cols = <<ligand_klifs_id, ligand_expo_id>>
                    /\ Len(report) = Cardinality(shared)
                    /\ \A i \in shared : \E k \in 1..Len(report) :
                          /\ report[k].idx = ligands_all.rows[i].idx
                          /\ \A c \in {ligand_klifs_id, ligand_expo_id} :
                                report[k].vals[c] = ligands_all.rows[i].vals[c]
                    /\ \A k \in 1..(Len(report) - 1) :
                          ~StrLt(report[k + 1].vals[ligand_expo_id].s,
                                 report[k].vals[ligand_expo_id].s)
                    /\ \A i \in 1..Len(report) : \A j \in i..Len(report) :
                          report[i].vals[ligand_expo_id] = report[j].vals[ligand_expo_id]
                          => \A k \in i..j :
                                report[k].vals[ligand_expo_id] = report[i].vals[ligand_expo_id]

\* The two ligand IDs of "6VL" are apart in the fetched table, a ligand with
\* an expo ID of its own is left out, and the report was printed.
C4_Witness ==
    /\ Completed("check_ligands")
    /\ Len(ligands_all.rows) = 3
    /\ ligands_all.rows[1].vals[ligand_klifs_id] = IntCell(3015)
    /\ ligands_all.rows[2].vals[ligand_expo_id] = StrCell(<<"I", "H", "Z">>)
    /\ ligands_all.rows[3].vals[ligand_klifs_id] = IntCell(3065)
    /\ Len(PrintedBy(out, 11)) = 3
    /\ Len(PrintedBy(out, 11)[2].frame.rows) = 2

\* The data records of the archive of this run, as fields.
StoredRecords == Tail(Tokenize(FileAt(fs, filename).data).recs)

SeededAscending == <<Rec1, Rec2, Rec3, Rec4, Rec5>>

\* C5: in the file the save step leaves, the structure IDs are in ascending
\* order from row to row and there is one row per fetched record; when the
\* service returned the five seeded records (in another order), the table
\* read back holds them in the order 1, 2, 3, 4, 5 with their values.
C5_StoredSorted ==
    /\ pc = "load" =>
        LET stored == StoredRecords
            ids == [k \in 1..Len(stored) |-> stored[k][1]]
        IN  /\ \A k \in 1..Len(ids) : IsIntTok(ids[k])
            /\ \A k \in 1..(Len(ids) - 1) : IntOfTok(ids[k]) <= IntOfTok(ids[k + 1])
            /\ Len(stored) = Len(fetched.rows)
    /\ Completed("load") =>
        /\ \A k \in 1..(Len(reloaded.rows) - 1) :
              reloaded.rows[k].vals[structure_klifs_id].v
                  <= reloaded.rows[k + 1].vals[structure_klifs_id].v
        /\ Values(fetched).rows = Values(MakeFrame(fetched.cols, SeededRecords)).rows
              => Values(reloaded) = Values(MakeFrame(IdColumns, SeededAscending))

C5_Witness ==
    /\ Completed("load")
    /\ Len(fetched.rows) = 5
    /\ fetched.rows[2].vals[structure_klifs_id] = IntCell(4)
    /\ reloaded.rows[2].vals[structure_klifs_id] = IntCell(2)
    /\ reloaded.rows[5].vals[kinase_klifs_name] = StrCell(<<"I", "T", "K">>)

\* C6: from the column selection on, structures_all has exactly the seven
\* ID columns in the fixed order, whatever columns were fetched; the header
\* of the file the save step leaves names these seven columns in this order
\* and every record has seven fields (no column of index labels).
C6_SevenColumns ==
    /\ Completed("select_columns") =>
        /\ structures_all.cols =
              <<structure_klifs_id, structure_pdb_id, structure_alternate_model,
                structure_chain, kinase_klifs_name, kinase_klifs_id, ligand_expo_id>>
        /\ \A i \in 1..Len(structures_all.rows) :
              DOMAIN structures_all.rows[i].vals = SeqToSet(structures_all.cols)
    /\ pc = "load" =>
        LET recs == Tokenize(FileAt(fs, filename).data).recs
        IN  /\ recs[1] = structures_all.cols
            /\ \A k \in 1..Len(recs) : Len(recs[k]) = 7
    /\ Completed("load") => reloaded.cols = structures_all.cols

\* The fetched table had another column and another column order.
C6_Witness ==
    /\ Completed("load")
    /\ Len(fetched.cols) = 8
    /\ Len(fetched.rows) > 0
    /\ reloaded.cols[5] = kinase_klifs_name

\* The rows of the fetched table with the seven ID columns only.
ProjectedRows(df) ==
    {[idx |-> df.rows[i].idx,
      vals |-> [c \in SeqToSet(IdColumns) |-> df.rows[i].vals[c]]] :
        i \in 1..Len(df.rows)}

\* C7: neither sanity check raises an exception; once the structure check
\* has run, the run is at the save step or beyond it; the file the save
\* step leaves is the archive of the whole table; and from the sort on the
\* table holds every fetched record (projected), none removed or changed,
\* whatever the checks reported.
C7_Advisory ==
    /\ failed_at \notin {"check_structures", "check_ligands"}
    /\ Completed("check_structures") =>
          pc = "save" \/ failed_at = "save" \/ Completed("save")
    /\ pc = "load" =>
          /\ FileAt(fs, filename) = ToCsv(structures_all, "None", "zip")
          /\ Len(StoredRecords) = Len(fetched.rows)
    /\ Completed("sort_values") =>
          /\ Len(structures_all.rows) = Len(fetched.rows)
          /\ SeqToSet(structures_all.rows) = ProjectedRows(fetched)

\* The structure check reported a shared triple and the file was written.
C7_Witness ==
    /\ pc = "load"
    /\ SharedTriples(structures_all) # {}
    /\ PrintedBy(out, 5)[2].kind = "series"
    /\ Len(StoredRecords) = 2

\* C8 as stated: both duplicate groupings have completed before the file is
\* written, and the file is read back only after it was written.
C8_AsListed ==
    /\ Completed("save") =>
          Completed("check_structures") /\ Completed("check_ligands")
    /\ Completed("load") => Completed("save")

\* The order of the cells of the notebook.
NotebookOrder ==
    <<"fetch_structures", "select_columns", "sort_values", "show_structures",
      "check_structures", "save", "load", "fetch_ligands", "check_ligands",
      "show_6VL", "show_7KC">>

\* C8 amended: the steps run in the order fetch, projection, sort, structure
\* grouping, save, read back, ligand fetch, ligand grouping, each after the
\* one before it has completed: the structure grouping has completed before
\* the file is written, the ligand grouping runs after the read back.
C8_StepOrder ==
    /\ Len(trace) <= Len(NotebookOrder)
    /\ trace = SubSeq(NotebookOrder, 1, Len(trace))
    /\ pc \notin {"done", "error"} => pc = NotebookOrder[Len(trace) + 1]
    /\ pc = "done" => trace = NotebookOrder
    /\ failed_at # "none" => failed_at = NotebookOrder[Len(trace) + 1]

C8_Witness ==
    /\ pc = "done"
    /\ Len(PrintedBy(out, 11)) = 3
    /\ filename \in DOMAIN fs

\* C9: an exception ends the run at the step that raised it.  When the
\* structures fetch fails nothing is printed, no filename is computed and
\* no file is written; when the write fails the file is not read back.
C9_FailuresFatal ==
    /\ err # "none" => pc = "error"
    /\ failed_at = "fetch_structures" =>
          /\ trace = <<>> /\ out = <<>> /\ filename = <<>>
          /\ structures_all = NoFrame
          /\ \A p \in DOMAIN fs : fs[p] = StaleFile
    /\ failed_at = "save" =>
          /\ ~Completed("save") /\ ~Completed("load")
          /\ read_path = <<>> /\ reloaded = NoFrame
          /\ PrintedBy(out, 8) = <<>>

\* The write failed and left a broken file at the path.
C9_Witness ==
    /\ failed_at = "save"
    /\ err = "OSError"
    /\ FileAt(fs, filename) = CorruptFile

\* C10: filename is "klifs_ids." + eight digits + ".csv.zip", the digits
\* being year, month and day of the date on which the save step ran; the
\* archive is written at this path and the path read back is this filename,
\* also when the date has changed since.
C10_FileName ==
    /\ filename # <<>> =>
        /\ Len(filename) = 26
        /\ SubSeq(filename, 1, 10) = <<"k", "l", "i", "f", "s", "_", "i", "d", "s", ".">>
        /\ SubSeq(filename, 19, 26) = <<".", "c", "s", "v", ".", "z", "i", "p">>
        /\ AllDigits(SubSeq(filename, 11, 18))
        /\ DigitsToNat(SubSeq(filename, 11, 14)) = saved_on.y
        /\ DigitsToNat(SubSeq(filename, 15, 16)) = saved_on.m
        /\ DigitsToNat(SubSeq(filename, 17, 18)) = saved_on.d
    /\ filename = <<>> => saved_on = NoDate
    /\ Completed("save") => FileAt(fs, filename).format = "zip"
    /\ read_path # <<>> => read_path = filename

\* Month and day have one digit and the date changed before the read back.
C10_Witness ==
    /\ Completed("load")
    /\ saved_on.m < 10 /\ saved_on.d < 10
    /\ today # saved_on

\* C11: the structures table is fetched once: after the fetch no step is
\* the fetch again and the fetched table stays what it was.  Once projected
\* and sorted, structures_all (rows, their order, every cell) is changed by
\* no later step, and ligands_all is changed by no step after its fetch.
C11_NoLocalMutation ==
    [][/\ Completed("fetch_structures") =>
             /\ fetched' = fetched
             /\ pc # "fetch_structures" /\ pc' # "fetch_structures"
       /\ Completed("sort_values") => structures_all' = structures_all
       /\ Completed("fetch_ligands") => ligands_all' = ligands_all]_vars

\* The run is complete, both lookups shown, the "6VL" lookup a proper part
\* of the table and the ligand report printed.
C11_Witness ==
    /\ pc = "done"
    /\ Len(structures_all.rows) = 2
    /\ Len(PrintedBy(out, 12)[1].frame.rows) = 1
    /\ Len(PrintedBy(out, 11)) = 3

\* The fetched record a row of structures_all comes from: the index labels
\* of the fetched table are 0, 1, ... and a row keeps its label.
SourceOf(row) == fetched.rows[row.idx + 1]

\* C12: from the sort on, the rows of structures_all are the fetched
\* records, each exactly once (as many rows as fetched records, no two rows
\* from the same fetched record), and the seven values of a row are those
\* of the one fetched record it comes from; in the file the save step
\* leaves, the k-th data record holds the text of the seven values of the
\* k-th row, so the file holds the fetched records as a multiset.
C12_OnlyReorders ==
    /\ Completed("sort_values") =>
          /\ Len(structures_all.rows) = Len(fetched.rows)
          /\ {structures_all.rows[k].idx : k \in 1..Len(structures_all.rows)}
                = {i - 1 : i \in 1..Len(fetched.rows)}
          /\ \A k \in 1..Len(structures_all.rows) :
                \A c \in SeqToSet(IdColumns) :
                   structures_all.rows[k].vals[c] = SourceOf(structures_all.rows[k]).vals[c]
    /\ pc = "load" =>
          LET stored == StoredRecords
          IN  /\ Len(stored) = Len(fetched.rows)
              /\ \A k \in 1..Len(stored) :
                    /\ Len(stored[k]) = 7
                    /\ \A j \in 1..7 :
                          stored[k][j] =
                             FormatCell(SourceOf(structures_all.rows[k]).vals[IdColumns[j]])

\* Three fetched records with eight columns, two of one structure ID and two
\* of one (pdb, alternate model, chain) triple; the sort has moved the last
\* fetched record to the front and the file is written.
C12_Witness ==
    /\ pc = "load"
    /\ Len(fetched.rows) = 3
    /\ Len(fetched.cols) = 8
    /\ structures_all.rows[1].idx = 2
    /\ SharedTriples(structures_all) # {}
    /\ structures_all.rows[2].vals[structure_klifs_id]
          = structures_all.rows[3].vals[structure_klifs_id]

====
